---------------------------- MODULE Spec2Model ----------------------------
(***************************************************************************)
(* Model of Tutorials/Week4/src/expr.c: the recursive-descent expression   *)
(* parser (PrimaryExpression, MultiplicativeExpression,                    *)
(* AdditiveExpression, Expression), the AST node allocator                 *)
(* (CreateAstExprNode), the temporary-name allocator (NewTemp), the        *)
(* evaluator / IR emitter (EvalExpression) and ReleaseAstExpr.             *)
(*                                                                         *)
(* The heap is a sequence of nodes; a node pointer is an index into it and *)
(* NULL is 0.  Every malloc returns a fresh index, free() appends the      *)
(* pointer to freeLog.  The lexer (curToken, NEXT_TOKEN), Expect and Error *)
(* are declared in lex.h / error.h and are modelled at their boundary.     *)
(***************************************************************************)
EXTENDS Integers, Sequences, FiniteSets, TLC

VARIABLES
    tokens,     \* the token sequence the lexer delivers (TK_EOF afterwards)
    pos,        \* index of curToken in tokens (Len(tokens)+1: TK_EOF)
    tmpNo,      \* static int tmpNo
    heap,       \* every node malloc'ed so far, by address
    freeLog,    \* the addresses passed to free(), in call order
    root,       \* the caller's AstExprNodePtr
    ir,         \* the lines EmitIR wrote during the latest EvalExpression
    result,     \* Returned(the long the latest EvalExpression returned), or None
    phase,      \* where the caller (or the process) stands
    errMsg,     \* the message handed to Error, or NoMsg
    parseLog    \* per Expression() call: tmpNo and heap size at its start, its result

vars == <<tokens, pos, tmpNo, heap, freeLog, root, ir, result, phase, errMsg, parseLog>>

---------------------------------------------------------------------------
(* Bounds of the model *)

\* Numeric literals are 1..MaxNum.
MaxNum == 2

\* Well-formed inputs (and their prefixes) have at most MaxLen tokens.
MaxLen == 7

\* Every token sequence of at most MaxRawLen tokens is an input as well.
MaxRawLen == 3

\* Expression() is called at most MaxParses times in one process.
MaxParses == 2

\* Caller-built trees (SpecTree) have at most MaxTreeOps operator nodes.
MaxTreeOps == 2

---------------------------------------------------------------------------
(* Tokens and values *)

NULL == 0
\* A long a call has returned, and the absence of one.
Returned(v) == <<v>>
None == <<>>
NoMsg == "no error"

AddOps == {"TK_ADD", "TK_SUB"}
MulOps == {"TK_MUL", "TK_DIV"}
ArithOps == AddOps \cup MulOps

NumVals == 1..MaxNum

EmptyName == <<>>

\* snprintf(value.name, MAX_ID_LEN, "t%d", n); the numbers of the model are far
\* too short for MAX_ID_LEN to cut the name.
TempName(n) == <<"t", n>>

\* The name payload the lexer attaches to the literal v: its text.
LiteralName(v) == <<"d", v>>

\* memset(&value, 0, sizeof(value))
ZeroValue == [numVal |-> 0, name |-> EmptyName]

NumToken(v) == [kind |-> "TK_NUM", value |-> [numVal |-> v, name |-> LiteralName(v)]]
KindToken(k) == [kind |-> k, value |-> ZeroValue]
EofToken == KindToken("TK_EOF")

NumTokens == {NumToken(v) : v \in NumVals}
AddTokens == {KindToken(k) : k \in AddOps}
MulTokens == {KindToken(k) : k \in MulOps}
LParen == KindToken("TK_LPAREN")
RParen == KindToken("TK_RPAREN")
Alphabet == NumTokens \cup AddTokens \cup MulTokens \cup {LParen, RParen}

---------------------------------------------------------------------------
(* The grammar of the comments in expr.c, as a generator of token strings *)

RECURSIVE GenPrimary(_), GenMultiplicative(_), GenAdditive(_)

\* Expression: AdditiveExpression
GenExpression(n) == GenAdditive(n)

\* PrimaryExpression: NUM | ( Expression ), with exactly n tokens
GenPrimary(n) ==
    IF n < 1 THEN {}
    ELSE IF n = 1 THEN {<<t>> : t \in NumTokens}
    ELSE {<<LParen>> \o e \o <<RParen>> : e \in GenExpression(n - 2)}

\* MultiplicativeExpression: PrimaryExpression (mop PrimaryExpression)*
GenMultiplicative(n) ==
    IF n < 1 THEN {}
    ELSE GenPrimary(n) \cup
         UNION {{m \o <<o>> \o p : m \in GenMultiplicative(k), o \in MulTokens,
                                   p \in GenPrimary(n - k - 1)} : k \in 1..(n - 2)}

\* AdditiveExpression: MultiplicativeExpression (aop MultiplicativeExpression)*
GenAdditive(n) ==
    IF n < 1 THEN {}
    ELSE GenMultiplicative(n) \cup
         UNION {{a \o <<o>> \o m : a \in GenAdditive(k), o \in AddTokens,
                                   m \in GenMultiplicative(n - k - 1)} : k \in 1..(n - 2)}

WellFormedInputs == UNION {GenExpression(n) : n \in 1..MaxLen}

PrefixInputs == UNION {{SubSeq(w, 1, k) : k \in 0..Len(w)} : w \in WellFormedInputs}

RawInputs == UNION {[1..n -> Alphabet] : n \in 0..MaxRawLen}

Inputs == WellFormedInputs \cup PrefixInputs \cup RawInputs

---------------------------------------------------------------------------
(* The lexer and error boundary (lex.h, error.h) *)

PrimaryMsg == "number or '(' expected"
RParenMsg == "TK_RPAREN expected"
UnknownMsg == "Unknown operator/operand"

\* A parser state: the token stream and cursor, tmpNo, the heap, and whether
\* Error has ended the process.
\*   ps.toks, ps.pos, ps.tmpNo, ps.heap, ps.status \in {"ok", "error"}, ps.msg

\* curToken
CurToken(ps) == IF ps.pos <= Len(ps.toks) THEN ps.toks[ps.pos] ELSE EofToken

\* NEXT_TOKEN: load the next token; at the end of input TK_EOF is delivered again
NextToken(ps) == [ps EXCEPT !.pos = IF ps.pos <= Len(ps.toks) THEN ps.pos + 1 ELSE ps.pos]

\* Error(msg): reports the message and terminates the process
Error(ps, msg) == [ps EXCEPT !.status = "error", !.msg = msg]

\* Expect(tk): skip the current token if it is tk, Error otherwise
Expect(ps, tk) == IF CurToken(ps).kind = tk THEN NextToken(ps) ELSE Error(ps, RParenMsg)

---------------------------------------------------------------------------
(* expr.c: the allocators *)

\* Faulty variant: return tmpNo without incrementing it.
NewTempNoIncrement(ps) == [ps |-> ps, val |-> ps.tmpNo]

\* static int NewTemp(void) { return tmpNo++; }
NewTemp(ps) == [ps |-> [ps EXCEPT !.tmpNo = ps.tmpNo + 1], val |-> ps.tmpNo]

\* CreateAstExprNode(tk, pVal, left, right): a fresh node holding a copy of *pVal
\* (malloc is taken to succeed, and every caller passes a non-null pVal)
CreateAstExprNode(ps, tk, pVal, left, right) ==
    [ps |-> [ps EXCEPT !.heap = Append(ps.heap,
                          [op |-> tk, value |-> pVal, kids |-> <<left, right>>])],
     node |-> Len(ps.heap) + 1]

\* expr->kids[i] = p   (i is 1 for kids[0], 2 for kids[1])
SetKid(ps, expr, i, p) == [ps EXCEPT !.heap[expr].kids[i] = p]

\* What a parsing function hands back once Error has ended the process.
Dead(ps) == [ps |-> ps, expr |-> NULL]

---------------------------------------------------------------------------
(* expr.c: the recursive-descent parser *)

RECURSIVE PrimaryExpression(_), MulLoop(_, _), AddLoop(_, _),
          MultiplicativeExpression(_), AdditiveExpression(_), Expression(_)

\* Faulty variant: no Error in the last branch; NULL is returned and the parse goes on.
PrimaryNoError(ps) ==
    IF CurToken(ps).kind = "TK_NUM" THEN
        LET c == CreateAstExprNode(ps, CurToken(ps).kind, CurToken(ps).value, NULL, NULL)
        IN  [ps |-> NextToken(c.ps), expr |-> c.node]
    ELSE IF CurToken(ps).kind = "TK_LPAREN" THEN
        LET r == Expression(NextToken(ps))
        IN  IF r.ps.status = "error" THEN Dead(r.ps)
            ELSE LET e == Expect(r.ps, "TK_RPAREN")
                 IN  IF e.status = "error" THEN Dead(e) ELSE [ps |-> e, expr |-> r.expr]
    ELSE [ps |-> ps, expr |-> NULL]

\* Faulty variant: the group is returned without Expect(TK_RPAREN).
PrimaryNoExpect(ps) ==
    IF CurToken(ps).kind = "TK_NUM" THEN
        LET c == CreateAstExprNode(ps, CurToken(ps).kind, CurToken(ps).value, NULL, NULL)
        IN  [ps |-> NextToken(c.ps), expr |-> c.node]
    ELSE IF CurToken(ps).kind = "TK_LPAREN" THEN
        LET r == Expression(NextToken(ps))
        IN  IF r.ps.status = "error" THEN Dead(r.ps) ELSE [ps |-> r.ps, expr |-> r.expr]
    ELSE Dead(Error(ps, PrimaryMsg))

PrimaryExpression(ps) ==
    IF CurToken(ps).kind = "TK_NUM" THEN
        LET c == CreateAstExprNode(ps, CurToken(ps).kind, CurToken(ps).value, NULL, NULL)
        IN  [ps |-> NextToken(c.ps), expr |-> c.node]
    ELSE IF CurToken(ps).kind = "TK_LPAREN" THEN
        LET r == Expression(NextToken(ps))
        IN  IF r.ps.status = "error" THEN Dead(r.ps)
            ELSE LET e == Expect(r.ps, "TK_RPAREN")
                 IN  IF e.status = "error" THEN Dead(e) ELSE [ps |-> e, expr |-> r.expr]
    ELSE Dead(Error(ps, PrimaryMsg))

\* Faulty variant: expr->kids[0] = left is missing.
MulLoopNoLeft(ps, left) ==
    IF CurToken(ps).kind \in {"TK_MUL", "TK_DIV"} THEN
        LET t == NewTemp(ps)
            value == [ZeroValue EXCEPT !.name = TempName(t.val)]
            c == CreateAstExprNode(t.ps, CurToken(ps).kind, value, NULL, NULL)
            expr == c.node
            r == PrimaryExpression(NextToken(c.ps))
        IN  IF r.ps.status = "error" THEN Dead(r.ps)
            ELSE MulLoop(SetKid(r.ps, expr, 2, r.expr), expr)
    ELSE [ps |-> ps, expr |-> left]

\* The while loop of MultiplicativeExpression, entered with the subtree so far.
MulLoop(ps, left) ==
    IF CurToken(ps).kind \in {"TK_MUL", "TK_DIV"} THEN
        LET t == NewTemp(ps)
            value == [ZeroValue EXCEPT !.name = TempName(t.val)]
            c == CreateAstExprNode(t.ps, CurToken(ps).kind, value, NULL, NULL)
            expr == c.node
            r == PrimaryExpression(SetKid(NextToken(c.ps), expr, 1, left))
        IN  IF r.ps.status = "error" THEN Dead(r.ps)
            ELSE MulLoop(SetKid(r.ps, expr, 2, r.expr), expr)
    ELSE [ps |-> ps, expr |-> left]

MultiplicativeExpression(ps) ==
    LET r == PrimaryExpression(ps)
    IN  IF r.ps.status = "error" THEN Dead(r.ps) ELSE MulLoop(r.ps, r.expr)

\* The while loop of AdditiveExpression, entered with the subtree so far.
AddLoop(ps, left) ==
    IF CurToken(ps).kind \in {"TK_SUB", "TK_ADD"} THEN
        LET t == NewTemp(ps)
            value == [ZeroValue EXCEPT !.name = TempName(t.val)]
            c == CreateAstExprNode(t.ps, CurToken(ps).kind, value, NULL, NULL)
            expr == c.node
            r == MultiplicativeExpression(SetKid(NextToken(c.ps), expr, 1, left))
        IN  IF r.ps.status = "error" THEN Dead(r.ps)
            ELSE AddLoop(SetKid(r.ps, expr, 2, r.expr), expr)
    ELSE [ps |-> ps, expr |-> left]

AdditiveExpression(ps) ==
    LET r == MultiplicativeExpression(ps)
    IN  IF r.ps.status = "error" THEN Dead(r.ps) ELSE AddLoop(r.ps, r.expr)

Expression(ps) == AdditiveExpression(ps)

---------------------------------------------------------------------------
(* expr.c: the evaluator / IR emitter *)

\* long arithmetic of C: / truncates toward zero.  With literals <= MaxNum and
\* the operator counts of the bounds no intermediate value leaves the range
\* of long, so + - * are the mathematical ones.
Abs(x) == IF x < 0 THEN -x ELSE x
\* Faulty variant: the quotient rounded toward minus infinity.
CDivFloor(a, b) == a \div b

CDiv(a, b) == IF (a < 0) = (b < 0) THEN Abs(a) \div Abs(b) ELSE -(Abs(a) \div Abs(b))

\* leftOperand / 0 is undefined behaviour.  What builds do with it: the
\* division instruction traps before the line is printed (x86), the division
\* is scheduled after the printf and traps there, or the instruction yields
\* a quotient without trapping (0 on AArch64, -1 on RISC-V).
DivZeroOutcomes ==
    {[trap |-> "before", val |-> 0], [trap |-> "after", val |-> 0],
     [trap |-> "no", val |-> 0], [trap |-> "no", val |-> -1]}

OpSymbol(tk) ==
    CASE tk = "TK_ADD" -> "+" [] tk = "TK_SUB" -> "-"
      [] tk = "TK_MUL" -> "*" [] tk = "TK_DIV" -> "/"

\* EmitIR("%s = %s <op> %s\n", dst, lhs, rhs)
EmitIR(es, dst, sym, lhs, rhs) ==
    [es EXCEPT !.ir = Append(es.ir, [dst |-> dst, lhs |-> lhs, op |-> sym, rhs |-> rhs])]

isArithmeticOperator(tk) == tk = "TK_ADD" \/ tk = "TK_SUB" \/ tk = "TK_MUL" \/ tk = "TK_DIV"

\* assert(...) failed: abort()
Abort(es) == [es EXCEPT !.status = "assert"]

\* What EvalExpression leaves behind once the process has ended.
Stopped(es) == [es |-> es, val |-> 0]

\* Faulty variants of EvalExpression: rightFirst evaluates kids[1] before kids[0];
\* fallback lets Error return, so that an unknown node evaluates to 0.
RECURSIVE EvalVariant(_, _, _, _, _, _)
EvalVariant(es, h, node, dz, rightFirst, fallback) ==
    IF node = NULL THEN Stopped(Abort(es))
    ELSE IF h[node].op = "TK_NUM" THEN [es |-> es, val |-> h[node].value.numVal]
    ELSE IF isArithmeticOperator(h[node].op) THEN
        LET first == EvalVariant(es, h, h[node].kids[IF rightFirst THEN 2 ELSE 1], dz,
                                 rightFirst, fallback)
            second == EvalVariant(first.es, h, h[node].kids[IF rightFirst THEN 1 ELSE 2], dz,
                                  rightFirst, fallback)
            leftOperand == IF rightFirst THEN second.val ELSE first.val
            rightOperand == IF rightFirst THEN first.val ELSE second.val
            emitted == EmitIR(second.es, h[node].value.name, OpSymbol(h[node].op),
                              h[h[node].kids[1]].value.name, h[h[node].kids[2]].value.name)
        IN  IF first.es.status # "ok" THEN Stopped(first.es)
            ELSE IF second.es.status # "ok" THEN Stopped(second.es)
            ELSE IF h[node].op = "TK_ADD" THEN [es |-> emitted, val |-> leftOperand + rightOperand]
            ELSE IF h[node].op = "TK_SUB" THEN [es |-> emitted, val |-> leftOperand - rightOperand]
            ELSE IF h[node].op = "TK_MUL" THEN [es |-> emitted, val |-> leftOperand * rightOperand]
            ELSE IF rightOperand # 0 THEN [es |-> emitted, val |-> CDiv(leftOperand, rightOperand)]
            ELSE IF dz.trap = "before" THEN Stopped([second.es EXCEPT !.status = "trap"])
            ELSE IF dz.trap = "after" THEN Stopped([emitted EXCEPT !.status = "trap"])
            ELSE [es |-> emitted, val |-> dz.val]
    ELSE IF fallback THEN [es |-> [es EXCEPT !.msg = UnknownMsg], val |-> 0]
    ELSE Stopped(Error(es, UnknownMsg))

EvalRightFirst(es, h, node, dz) == EvalVariant(es, h, node, dz, TRUE, FALSE)
EvalZeroFallback(es, h, node, dz) == EvalVariant(es, h, node, dz, FALSE, TRUE)

\* An evaluation state: es.ir (the lines printed), es.status, es.msg.
\* h is the heap, dz what this build does on a division by zero.
RECURSIVE EvalExpression(_, _, _, _)
EvalExpression(es, h, node, dz) ==
    IF node = NULL THEN Stopped(Abort(es))
    ELSE IF h[node].op = "TK_NUM" THEN [es |-> es, val |-> h[node].value.numVal]
    ELSE IF isArithmeticOperator(h[node].op) THEN
        IF h[node].kids[1] = NULL \/ h[node].kids[2] = NULL THEN Stopped(Abort(es))
        ELSE
        LET l == EvalExpression(es, h, h[node].kids[1], dz)
        IN  IF l.es.status # "ok" THEN Stopped(l.es)
            ELSE
            LET r == EvalExpression(l.es, h, h[node].kids[2], dz)
                leftOperand == l.val
                rightOperand == r.val
                emitted == EmitIR(r.es, h[node].value.name, OpSymbol(h[node].op),
                                  h[h[node].kids[1]].value.name,
                                  h[h[node].kids[2]].value.name)
            IN  IF r.es.status # "ok" THEN Stopped(r.es)
                ELSE CASE h[node].op = "TK_ADD" ->
                            [es |-> emitted, val |-> leftOperand + rightOperand]
                       [] h[node].op = "TK_SUB" ->
                            [es |-> emitted, val |-> leftOperand - rightOperand]
                       [] h[node].op = "TK_MUL" ->
                            [es |-> emitted, val |-> leftOperand * rightOperand]
                       [] h[node].op = "TK_DIV" ->
                            IF rightOperand # 0
                            THEN [es |-> emitted, val |-> CDiv(leftOperand, rightOperand)]
                            ELSE IF dz.trap = "before"
                            THEN Stopped([r.es EXCEPT !.status = "trap"])
                            ELSE IF dz.trap = "after"
                            THEN Stopped([emitted EXCEPT !.status = "trap"])
                            ELSE [es |-> emitted, val |-> dz.val]
    ELSE Stopped(Error(es, UnknownMsg))

---------------------------------------------------------------------------
(* expr.c: ReleaseAstExpr *)

\* free(p)
Free(log, p) == Append(log, p)

\* Faulty variant: the right subtree is not released.
RECURSIVE ReleaseSkipsRight(_, _, _)
ReleaseSkipsRight(log, h, node) ==
    IF node # NULL
    THEN Free(ReleaseSkipsRight(log, h, h[node].kids[1]), node)
    ELSE log

RECURSIVE ReleaseAstExpr(_, _, _)
ReleaseAstExpr(log, h, node) ==
    IF node # NULL
    THEN Free(ReleaseAstExpr(ReleaseAstExpr(log, h, h[node].kids[1]), h, h[node].kids[2]),
              node)
    ELSE log

---------------------------------------------------------------------------
(* The process: a caller that parses, evaluates and releases *)

\* tmpNo is 0, nothing is allocated, and the lexer has loaded the first token.
Init ==
    /\ tokens \in Inputs
    /\ pos = 1
    /\ tmpNo = 0
    /\ heap = <<>>
    /\ freeLog = <<>>
    /\ root = NULL
    /\ ir = <<>>
    /\ result = None
    /\ phase = "ready"
    /\ errMsg = NoMsg
    /\ parseLog = <<>>

\* root = Expression();
ParseExpression ==
    /\ phase = "ready"
    /\ Len(parseLog) < MaxParses
    /\ LET r == Expression([toks |-> tokens, pos |-> pos, tmpNo |-> tmpNo, heap |-> heap,
                            status |-> "ok", msg |-> NoMsg])
       IN  /\ pos' = r.ps.pos
           /\ tmpNo' = r.ps.tmpNo
           /\ heap' = r.ps.heap
           /\ errMsg' = r.ps.msg
           /\ root' = IF r.ps.status = "ok" THEN r.expr ELSE root
           /\ phase' = IF r.ps.status = "ok" THEN "parsed" ELSE "failed"
           /\ parseLog' = Append(parseLog, [tmp0 |-> tmpNo, heap0 |-> Len(heap),
                                            expr |-> r.expr])
    /\ UNCHANGED <<tokens, freeLog, ir, result>>

\* result = EvalExpression(root);
Evaluate ==
    /\ phase = "parsed"
    /\ \E dz \in DivZeroOutcomes :
         LET r == EvalExpression([ir |-> <<>>, status |-> "ok", msg |-> NoMsg],
                                 heap, root, dz)
         IN  /\ ir' = r.es.ir
             /\ result' = IF r.es.status = "ok" THEN Returned(r.val) ELSE None
             /\ errMsg' = r.es.msg
             /\ phase' = CASE r.es.status = "ok" -> "evaluated"
                           [] r.es.status = "error" -> "failed"
                           [] r.es.status = "trap" -> "trapped"
                           [] r.es.status = "assert" -> "aborted"
    /\ UNCHANGED <<tokens, pos, tmpNo, heap, freeLog, root, parseLog>>

\* ReleaseAstExpr(root);
Release ==
    /\ phase \in {"ready", "parsed", "evaluated"}
    /\ freeLog' = ReleaseAstExpr(freeLog, heap, root)
    /\ phase' = "released"
    /\ UNCHANGED <<tokens, pos, tmpNo, heap, root, ir, result, errMsg, parseLog>>

\* The caller hands the same text to the lexer again and starts over with an
\* empty root, result and output record; tmpNo is not reset.
Restart ==
    /\ phase = "released"
    /\ Len(parseLog) < MaxParses
    /\ pos' = 1
    /\ root' = NULL
    /\ ir' = <<>>
    /\ result' = None
    /\ phase' = "ready"
    /\ UNCHANGED <<tokens, tmpNo, heap, freeLog, errMsg, parseLog>>

Next == ParseExpression \/ Evaluate \/ Release \/ Restart

Spec == Init /\ [][Next]_vars

---------------------------------------------------------------------------
(* Caller-built trees: EvalExpression and ReleaseAstExpr are public and take *)
(* any tree made with CreateAstExprNode, also one with a node whose op is   *)
(* neither TK_NUM nor an arithmetic operator.                               *)

UnknownKinds == {"TK_EOF"}

\* The literals of caller-built trees.
TreeVals == {0, 1}

LeafTerms == {[op |-> "TK_NUM", value |-> [numVal |-> v, name |-> LiteralName(v)]] :
                 v \in TreeVals}
             \cup {[op |-> k, value |-> ZeroValue] : k \in UnknownKinds}

\* The tree terms with exactly n operator nodes.
RECURSIVE TreeTerms(_)
TreeTerms(n) ==
    IF n = 0 THEN LeafTerms
    ELSE UNION {{[op |-> o, l |-> a, r |-> b] :
                    o \in ArithOps, a \in TreeTerms(k), b \in TreeTerms(n - 1 - k)} :
                k \in 0..(n - 1)}

\* The caller builds the tree bottom-up; an operator node is named after its address.
RECURSIVE BuildTree(_, _)
BuildTree(ps, t) ==
    IF t.op \in ArithOps
    THEN LET a == BuildTree(ps, t.l)
             b == BuildTree(a.ps, t.r)
         IN  CreateAstExprNode(b.ps, t.op,
                               [ZeroValue EXCEPT !.name = TempName(Len(b.ps.heap))],
                               a.node, b.node)
    ELSE CreateAstExprNode(ps, t.op, t.value, NULL, NULL)

InitTree ==
    /\ tokens = <<>>
    /\ pos = 1
    /\ tmpNo = 0
    /\ \E n \in 0..MaxTreeOps : \E t \in TreeTerms(n) :
         LET b == BuildTree([heap |-> <<>>], t)
         IN  heap = b.ps.heap /\ root = b.node
    /\ freeLog = <<>>
    /\ ir = <<>>
    /\ result = None
    /\ phase = "parsed"
    /\ errMsg = NoMsg
    /\ parseLog = <<>>

NextTree == Evaluate \/ Release

SpecTree == InitTree /\ [][NextTree]_vars

---------------------------------------------------------------------------
(* Reference notions the properties are stated with *)

Kind(s, i) == IF i \in 1..Len(s) THEN s[i].kind ELSE "TK_EOF"

\* The nesting depth of position i: the '(' before it minus the ')' before it.
Depth(s, i) ==
    Cardinality({j \in 1..(i - 1) : s[j].kind = "TK_LPAREN"})
    - Cardinality({j \in 1..(i - 1) : s[j].kind = "TK_RPAREN"})

TopLevel(s, kinds) == {i \in 1..Len(s) : s[i].kind \in kinds /\ Depth(s, i) = 0}

MaxOf(S) == CHOOSE x \in S : \A y \in S : y <= x

Undefined == [wf |-> TRUE, def |-> FALSE, val |-> 0]
IllFormed == [wf |-> FALSE, def |-> FALSE, val |-> 0]

\* The usual rules on two values: / truncates toward zero, x / 0 has no value.
Usual(kind, a, b) ==
    IF ~a.wf \/ ~b.wf THEN IllFormed
    ELSE IF ~a.def \/ ~b.def THEN Undefined
    ELSE IF kind = "TK_ADD" THEN [wf |-> TRUE, def |-> TRUE, val |-> a.val + b.val]
    ELSE IF kind = "TK_SUB" THEN [wf |-> TRUE, def |-> TRUE, val |-> a.val - b.val]
    ELSE IF kind = "TK_MUL" THEN [wf |-> TRUE, def |-> TRUE, val |-> a.val * b.val]
    ELSE IF b.val = 0 THEN Undefined
    ELSE LET q == CHOOSE q \in (-Abs(a.val))..Abs(a.val) :
                     \E m \in 0..(Abs(b.val) - 1) :
                        /\ Abs(a.val) = Abs(q) * Abs(b.val) + m
                        /\ (q > 0 => (a.val > 0) = (b.val > 0))
                        /\ (q < 0 => (a.val > 0) # (b.val > 0))
         IN  [wf |-> TRUE, def |-> TRUE, val |-> q]

\* The value of a token string under the usual rules: it splits at the last
\* + or - outside parentheses, failing that at the last * or /, a
\* parenthesised string has the value of its inside, a literal its own.
RECURSIVE RefEval(_)
RefEval(s) ==
    LET n == Len(s)
        adds == TopLevel(s, AddOps)
        muls == TopLevel(s, MulOps)
        Split(i) == Usual(s[i].kind, RefEval(SubSeq(s, 1, i - 1)), RefEval(SubSeq(s, i + 1, n)))
    IN  IF n = 0 THEN IllFormed
        ELSE IF adds # {} THEN Split(MaxOf(adds))
        ELSE IF muls # {} THEN Split(MaxOf(muls))
        ELSE IF n = 1 THEN IF s[1].kind = "TK_NUM"
                           THEN [wf |-> TRUE, def |-> TRUE, val |-> s[1].value.numVal]
                           ELSE IllFormed
        ELSE IF s[1].kind = "TK_LPAREN" /\ s[n].kind = "TK_RPAREN"
        THEN RefEval(SubSeq(s, 2, n - 1))
        ELSE IllFormed

WellFormed(s) == RefEval(s).wf

OpTokens(s) == SelectSeq(s, LAMBDA t : t.kind \in ArithOps)
NumOps(s) == Len(OpTokens(s))
Consumed == SubSeq(tokens, 1, pos - 1)

\* pre is a string after which a primary expression is due: it is empty, or
\* such a string followed by '(', or such a string followed by a well-formed
\* expression and an operator.
RECURSIVE ViablePrefix(_)
ViablePrefix(pre) ==
    LET n == Len(pre)
    IN  \/ n = 0
        \/ /\ n > 0
           /\ pre[n].kind = "TK_LPAREN"
           /\ ViablePrefix(SubSeq(pre, 1, n - 1))
        \/ /\ n > 1
           /\ pre[n].kind \in ArithOps
           /\ \E k \in 0..(n - 2) :
                 /\ WellFormed(SubSeq(pre, k + 1, n - 1))
                 /\ ViablePrefix(SubSeq(pre, 1, k))

\* The operator nodes of a tree, left subtree first, then the node, then the right subtree.
RECURSIVE InOrderOps(_, _)
InOrderOps(h, node) ==
    IF node = NULL THEN <<>>
    ELSE InOrderOps(h, h[node].kids[1])
         \o (IF h[node].op \in ArithOps THEN <<node>> ELSE <<>>)
         \o InOrderOps(h, h[node].kids[2])

\* The nodes of a tree.
RECURSIVE TreeNodes(_, _)
TreeNodes(h, node) ==
    IF node = NULL THEN {}
    ELSE {node} \cup TreeNodes(h, h[node].kids[1]) \cup TreeNodes(h, h[node].kids[2])

\* The instruction of an operator node.
InstrOf(h, node) ==
    [dst |-> h[node].value.name, lhs |-> h[h[node].kids[1]].value.name,
     op |-> OpSymbol(h[node].op), rhs |-> h[h[node].kids[2]].value.name]

\* The instructions of a tree in postorder.
RECURSIVE PostOrder(_, _)
PostOrder(h, node) ==
    IF h[node].op \in ArithOps
    THEN PostOrder(h, h[node].kids[1]) \o PostOrder(h, h[node].kids[2])
         \o <<InstrOf(h, node)>>
    ELSE <<>>

IsPrefix(a, b) == Len(a) <= Len(b) /\ SubSeq(b, 1, Len(a)) = a

IsTemp(name) == Len(name) = 2 /\ name[1] = "t"

Last(s) == s[Len(s)]

\* The latest Expression() call returned or ended the process, and the
\* cursor and the tree are still those it left.
AfterParse ==
    \/ phase \in {"parsed", "evaluated", "trapped", "failed"}
    \/ phase = "released" /\ root # NULL

\* The latest Expression() call returned a tree, which root still points to.
HasTree == AfterParse /\ phase # "failed"

---------------------------------------------------------------------------
(* The claims *)

Tok(v) == NumToken(v)
Op(k) == KindToken(k)

\* C1: for a well-formed token string, Expression() consumes all of it and
\* EvalExpression returns its value under the usual rules (precedence, left
\* associativity, parentheses, / truncating toward zero), whenever the string
\* has a value, i.e. no division by zero occurs in it.
C1_ValueIsUsual ==
    (AfterParse /\ WellFormed(tokens)) =>
        /\ phase # "failed"
        /\ pos = Len(tokens) + 1
        /\ (phase = "evaluated" /\ RefEval(tokens).def) => result = Returned(RefEval(tokens).val)

\* (1 - 2) / 2 is 0: the negative intermediate result is truncated toward zero.
C1_Witness ==
    /\ tokens = <<LParen, Tok(1), Op("TK_SUB"), Tok(2), RParen, Op("TK_DIV"), Tok(2)>>
    /\ phase = "evaluated"
    /\ result = Returned(0)

\* C2: for any well-formed expression the number of instructions EvalExpression
\* emits equals the number of operator tokens of the input.
C2_OneInstructionPerOperator ==
    (WellFormed(tokens) /\ phase \in {"evaluated", "trapped"}) =>
        Len(ir) = NumOps(tokens)

\* C3: every operator token recognized advances tmpNo by one, and the k-th
\* operator token in token order is named t(c0 + k - 1), c0 being tmpNo at the
\* start of the parse, whatever the shape of the tree.
C3_TempsInTokenOrder ==
    AfterParse =>
        LET c0 == Last(parseLog).tmp0
            toks == OpTokens(Consumed)
        IN  /\ tmpNo = c0 + Len(toks)
            /\ HasTree =>
                 LET ops == InOrderOps(heap, root)
                 IN  /\ Len(ops) = Len(toks)
                     /\ \A k \in 1..Len(ops) :
                           /\ heap[ops[k]].op = toks[k].kind
                           /\ heap[ops[k]].value.name = TempName(c0 + k - 1)

\* The second parse of 1 + 2 * 1: c0 is 2, the + (root) is t2 and the * is t3,
\* although the * is evaluated first.
C3_Witness ==
    /\ tokens = <<Tok(1), Op("TK_ADD"), Tok(2), Op("TK_MUL"), Tok(1)>>
    /\ phase = "evaluated"
    /\ Len(parseLog) = 2
    /\ tmpNo = 4
    /\ heap[root].value.name = TempName(2)
    /\ ir[1].dst = TempName(3)

\* C4: the instructions are emitted in postorder (left subtree, right subtree,
\* node), so every temporary used as an operand is the destination of an
\* earlier instruction.
C4_PostOrderEmission ==
    (HasTree /\ phase \in {"evaluated", "trapped"}) =>
        /\ IsPrefix(ir, PostOrder(heap, root))
        /\ phase = "evaluated" => ir = PostOrder(heap, root)
        /\ \A i \in 1..Len(ir) :
              /\ IsTemp(ir[i].lhs) => \E j \in 1..(i - 1) : ir[j].dst = ir[i].lhs
              /\ IsTemp(ir[i].rhs) => \E j \in 1..(i - 1) : ir[j].dst = ir[i].rhs

\* (1 + 2) * 2: the addition (t1, recognized second) is emitted before the
\* multiplication (t0) that uses it.
C4_Witness ==
    /\ tokens = <<LParen, Tok(1), Op("TK_ADD"), Tok(2), RParen, Op("TK_MUL"), Tok(2)>>
    /\ phase = "evaluated"
    /\ Len(ir) = 2
    /\ ir[1].op = "+"
    /\ ir[2] = [dst |-> TempName(1), lhs |-> TempName(0), op |-> "*", rhs |-> LiteralName(2)]

\* The temporary numbers of a tree, in token order.
TempsOf(h, node) == [k \in 1..Len(InOrderOps(h, node)) |-> h[InOrderOps(h, node)[k]].value.name[2]]

\* C5 (as stated): running Expression() again on the same input gives every
\* operator the temporary name the earlier parse gave it.
C5_SameNamesOnReparse ==
    (Len(parseLog) = 2 /\ phase = "parsed") =>
        TempsOf(heap, parseLog[2].expr) = TempsOf(heap, parseLog[1].expr)

\* C5 (amended): the second parse numbers the operators in the same order, and
\* each name is the earlier one shifted by the number of operators recognized
\* in between, as tmpNo is never reset.
C5_NamesShiftedOnReparse ==
    (Len(parseLog) = 2 /\ phase = "parsed") =>
        LET first == TempsOf(heap, parseLog[1].expr)
            second == TempsOf(heap, parseLog[2].expr)
        IN  /\ parseLog[2].tmp0 - parseLog[1].tmp0 = NumOps(Consumed)
            /\ Len(second) = Len(first)
            /\ \A k \in 1..Len(first) :
                  second[k] = first[k] + NumOps(Consumed)

C5_Witness ==
    /\ tokens = <<Tok(1), Op("TK_SUB"), Tok(2), Op("TK_SUB"), Tok(1)>>
    /\ Len(parseLog) = 2
    /\ phase = "parsed"
    /\ TempsOf(heap, parseLog[1].expr) = <<0, 1>>
    /\ TempsOf(heap, root) = <<2, 3>>

\* The number of nodes a parse that stopped at the cursor has allocated.
NodesFor(s) == Len(SelectSeq(s, LAMBDA t : t.kind \in ArithOps \cup {"TK_NUM"}))

\* C6: whenever a primary expression is due and the current token is neither
\* a number nor '(', Error("number or '(' expected") ends the parse there:
\* the cursor stays on that token, nothing more is allocated and no tree is
\* returned; and the message is raised in no other case.
C6_PrimaryError ==
    (Len(parseLog) = 1 /\ phase # "ready") =>
        /\ \A i \in 1..(Len(tokens) + 1) :
              (ViablePrefix(SubSeq(tokens, 1, i - 1))
                 /\ Kind(tokens, i) \notin {"TK_NUM", "TK_LPAREN"}) =>
                    /\ phase = "failed"
                    /\ errMsg = PrimaryMsg
                    /\ pos = i
                    /\ root = NULL
                    /\ Last(parseLog).expr = NULL
                    /\ Len(heap) = NodesFor(Consumed)
                    /\ tmpNo = NumOps(Consumed)
                    /\ ir = <<>>
        /\ errMsg = PrimaryMsg =>
              /\ phase = "failed"
              /\ ViablePrefix(Consumed)
              /\ Kind(tokens, pos) \notin {"TK_NUM", "TK_LPAREN"}

\* 1 + : the operand of the dangling + is missing at the end of input.
C6_Witness ==
    /\ tokens = <<Tok(1), Op("TK_ADD")>>
    /\ phase = "failed"
    /\ errMsg = PrimaryMsg
    /\ pos = 3
    /\ tmpNo = 1

\* C7: when a '(' at which a primary expression is due is followed by a
\* well-formed expression and then by a token that neither continues the
\* expression nor is ')', Expect(TK_RPAREN) ends the parse at that token, no
\* tree is returned and no instruction is emitted; the message is raised in
\* no other case.
C7_UnterminatedGroup ==
    (Len(parseLog) = 1 /\ phase # "ready") =>
        /\ \A i \in 1..Len(tokens) : \A j \in (i + 2)..(Len(tokens) + 1) :
              (/\ tokens[i].kind = "TK_LPAREN"
               /\ Kind(tokens, j) \notin ArithOps \cup {"TK_RPAREN"}
               /\ WellFormed(SubSeq(tokens, i + 1, j - 1))
               /\ ViablePrefix(SubSeq(tokens, 1, i - 1))) =>
                    /\ phase = "failed"
                    /\ errMsg = RParenMsg
                    /\ pos = j
                    /\ root = NULL
                    /\ Last(parseLog).expr = NULL
                    /\ ir = <<>>
        /\ errMsg = RParenMsg =>
              /\ phase = "failed"
              /\ ir = <<>>
              /\ Kind(tokens, pos) # "TK_RPAREN"
              /\ \E i \in 1..(pos - 2) :
                    /\ tokens[i].kind = "TK_LPAREN"
                    /\ WellFormed(SubSeq(tokens, i + 1, pos - 1))

\* ( 1 + 2 with the end of input where ')' is due.
C7_Witness ==
    /\ tokens = <<LParen, Tok(1), Op("TK_ADD"), Tok(2)>>
    /\ phase = "failed"
    /\ errMsg = RParenMsg
    /\ pos = 5
    /\ tmpNo = 1
    /\ Len(heap) = 3

\* The (node, slot) pairs of a tree that point to n.
ParentsOf(h, nodes, n) == {<<m, i>> \in nodes \X {1, 2} : h[m].kids[i] = n}

\* C8: every node of a tree returned by Expression() is a leaf (TK_NUM, no
\* children) or an operator node with two children, and every node but the
\* root has exactly one parent, the root none.
C8_TreeShape ==
    HasTree =>
        LET nodes == TreeNodes(heap, root)
        IN  /\ root # NULL
            /\ \A n \in nodes :
                  /\ \/ heap[n].op = "TK_NUM" /\ heap[n].kids = <<NULL, NULL>>
                     \/ /\ heap[n].op \in ArithOps
                        /\ heap[n].kids[1] # NULL
                        /\ heap[n].kids[2] # NULL
                  /\ Cardinality(ParentsOf(heap, nodes, n)) = IF n = root THEN 0 ELSE 1
            /\ Cardinality(nodes) = NodesFor(Consumed)

C8_Witness ==
    /\ tokens = <<Tok(1), Op("TK_MUL"), LParen, Tok(2), Op("TK_ADD"), Tok(1), RParen>>
    /\ phase = "parsed"
    /\ Cardinality(TreeNodes(heap, root)) = 5
    /\ heap[root].op = "TK_MUL"
    /\ heap[heap[root].kids[2]].op = "TK_ADD"

\* The value of a tree without unknown nodes under the usual rules.
RECURSIVE TreeValue(_, _)
TreeValue(h, node) ==
    IF h[node].op = "TK_NUM"
    THEN [wf |-> TRUE, def |-> TRUE, val |-> h[node].value.numVal]
    ELSE IF h[node].op \in ArithOps
    THEN Usual(h[node].op, TreeValue(h, h[node].kids[1]), TreeValue(h, h[node].kids[2]))
    ELSE IllFormed

\* The value of a tree with every unknown node counted as 0.
RECURSIVE FallbackValue(_, _)
FallbackValue(h, node) ==
    IF h[node].op = "TK_NUM"
    THEN [wf |-> TRUE, def |-> TRUE, val |-> h[node].value.numVal]
    ELSE IF h[node].op \in ArithOps
    THEN Usual(h[node].op, FallbackValue(h, h[node].kids[1]),
               FallbackValue(h, h[node].kids[2]))
    ELSE [wf |-> TRUE, def |-> TRUE, val |-> 0]

\* The postorder walk of a tree up to its first unknown node: whether there
\* is one (hit), the instructions of the operator nodes completed before it,
\* and whether one of those divides by zero (ub).
RECURSIVE UpToUnknown(_, _)
UpToUnknown(h, node) ==
    IF h[node].op = "TK_NUM" THEN [hit |-> FALSE, ub |-> FALSE, instrs |-> <<>>]
    ELSE IF h[node].op \notin ArithOps THEN [hit |-> TRUE, ub |-> FALSE, instrs |-> <<>>]
    ELSE LET l == UpToUnknown(h, h[node].kids[1])
             r == UpToUnknown(h, h[node].kids[2])
         IN  IF l.hit THEN l
             ELSE IF r.hit THEN [hit |-> TRUE, ub |-> l.ub \/ r.ub,
                                 instrs |-> l.instrs \o r.instrs]
             ELSE [hit |-> FALSE, ub |-> ~TreeValue(h, node).def,
                   instrs |-> l.instrs \o r.instrs \o <<InstrOf(h, node)>>]

IndexIn(log, p) == IF \E i \in 1..Len(log) : log[i] = p
                   THEN CHOOSE i \in 1..Len(log) : log[i] = p ELSE 0

\* C10: ReleaseAstExpr frees every node of the tree exactly once, children
\* before their parent; afterwards as many nodes are freed as
\* CreateAstExprNode allocated, and a null root frees nothing.  Before the
\* release no node of the tree is freed.
C10_ReleaseFreesEachNodeOnce ==
    /\ phase = "released" =>
          /\ \A i, j \in 1..Len(freeLog) : freeLog[i] = freeLog[j] => i = j
          /\ {freeLog[i] : i \in 1..Len(freeLog)} = 1..Len(heap)
          /\ \A n \in 1..Len(heap) : \A k \in {1, 2} :
                heap[n].kids[k] # NULL =>
                   IndexIn(freeLog, heap[n].kids[k]) < IndexIn(freeLog, n)
          /\ root # NULL =>
                /\ Last(freeLog) = root
                /\ Cardinality({i \in 1..Len(freeLog) :
                                   freeLog[i] \in TreeNodes(heap, root)})
                   = Len(heap) - Last(parseLog).heap0
          /\ root = NULL => Len(freeLog) = Len(heap)
    /\ phase \in {"parsed", "evaluated"} =>
          \A i \in 1..Len(freeLog) : freeLog[i] \notin TreeNodes(heap, root)

\* (1 + 2) * 2 released: five nodes, the root last.
C10_Witness ==
    /\ tokens = <<LParen, Tok(1), Op("TK_ADD"), Tok(2), RParen, Op("TK_MUL"), Tok(2)>>
    /\ phase = "released"
    /\ Len(parseLog) = 1
    /\ Len(freeLog) = 5
    /\ freeLog[5] = root

=============================================================================
